---- MODULE Spec2Model ----
(***************************************************************************)
(* grind-log backend (src/backend/src/main.rs): the session table, the     *)
(* log_session / statistics handlers and the analytics functions they      *)
(* call (streak and points, period trend, period counts, weekly streak     *)
(* bonus).                                                                 *)
(*                                                                         *)
(* A date string (Session.date, SessionLog.date) is a sequence of byte     *)
(* codes, so that String::cmp is the lexicographic order on bytes and      *)
(* parsing / formatting are computed.  A NaiveDate is the number of days   *)
(* since 1970-01-01.                                                       *)
(***************************************************************************)
EXTENDS Integers, Sequences, FiniteSets, TLC

VARIABLES sessions, resp

vars == <<sessions, resp>>

(***************************************************************************)
(* Bounds of the model.                                                    *)
(***************************************************************************)
\* longest record slice handed to the analytics functions (dated family)
MaxLen == 4
\* longest record slice of the family that varies the session type
MaxPts == 3
\* longest day-by-day run handed to the analytics functions
MaxRun == 8
\* most rows the session table holds
MaxStore == 3

(***************************************************************************)
(* Date strings and chrono's NaiveDate.                                    *)
(***************************************************************************)
\* the byte of the '-' literal of the "%Y-%m-%d" format
Hyphen == 45

Digit(n) == 48 + n

IsDigit(c) == c \in Digit(0)..Digit(9)

IsLeap(y) == (y % 4 = 0 /\ y % 100 # 0) \/ y % 400 = 0

DaysInMonth(y, m) ==
    IF m = 2 THEN (IF IsLeap(y) THEN 29 ELSE 28)
    ELSE IF m \in {4, 6, 9, 11} THEN 30 ELSE 31

\* the day number of year yy (counted from March), month point mp, day d
DaysFromShifted(yy, mp, d) ==
    (yy \div 400) * 146097
    + (yy % 400) * 365 + (yy % 400) \div 4 - (yy % 400) \div 100
    + (153 * mp + 2) \div 5 + d - 1
    - 719468

\* NaiveDate::from_ymd_opt, as a day number (proleptic Gregorian calendar)
DaysFromCivil(y, m, d) ==
    IF m <= 2 THEN DaysFromShifted(y - 1, m + 9, d) ELSE DaysFromShifted(y, m - 3, d)

CivilOfMonthPoint(y0, doy, mp) ==
    [year  |-> IF mp < 10 THEN y0 ELSE y0 + 1,
     month |-> IF mp < 10 THEN mp + 3 ELSE mp - 9,
     day   |-> doy - (153 * mp + 2) \div 5 + 1]

CivilOfDayOfYear(y0, doy) == CivilOfMonthPoint(y0, doy, (5 * doy + 2) \div 153)

CivilOfYearOfEra(era, doe, yoe) ==
    CivilOfDayOfYear(yoe + era * 400, doe - (365 * yoe + yoe \div 4 - yoe \div 100))

CivilOfDayOfEra(era, doe) ==
    CivilOfYearOfEra(era, doe,
        (doe - doe \div 1460 + doe \div 36524 - doe \div 146096) \div 365)

\* the calendar fields of a NaiveDate: Datelike::year, month, day
CivilFromDays(n) == CivilOfDayOfEra((n + 719468) \div 146097, (n + 719468) % 146097)

year(date) == CivilFromDays(date).year

month(date) == CivilFromDays(date).month

\* date.weekday().num_days_from_monday(); 1970-01-01 was a Thursday
num_days_from_monday(date) == (date + 3) % 7

Digits2(n) == <<Digit(n \div 10), Digit(n % 10)>>

Digits4(n) == <<Digit(n \div 1000), Digit((n \div 100) % 10)>> \o Digits2(n % 100)

FormatYearMonth(c) == Digits4(c.year) \o <<Hyphen>> \o Digits2(c.month)

FormatCivil(c) == FormatYearMonth(c) \o <<Hyphen>> \o Digits2(c.day)

\* format!("{}-{:02}", date.year(), date.month())
month_key(date) == FormatYearMonth(CivilFromDays(date))

\* date.year().to_string()
year_key(date) == Digits4(year(date))

\* NaiveDate::to_string: the zero-padded YYYY-MM-DD text (years 1000..9999 here)
to_string(date) == FormatCivil(CivilFromDays(date))

\* String::cmp as used by sorted_by: a < b in the lexicographic order on bytes
RECURSIVE TextLessFrom(_, _, _)
TextLessFrom(a, b, i) ==
    IF i > Len(b) THEN FALSE
    ELSE IF i > Len(a) THEN TRUE
    ELSE IF a[i] # b[i] THEN a[i] < b[i]
    ELSE TextLessFrom(a, b, i + 1)

TextLess(a, b) == TextLessFrom(a, b, 1)

\* scan::number(s, 1, max): how many digits (at most max) start at pos
RECURSIVE DigitRun(_, _, _)
DigitRun(s, pos, max) ==
    IF max = 0 \/ pos > Len(s) \/ ~IsDigit(s[pos]) THEN 0
    ELSE 1 + DigitRun(s, pos + 1, max - 1)

\* the number written by the n digits that start at pos
RECURSIVE NumVal(_, _, _)
NumVal(s, pos, n) ==
    IF n = 0 THEN 0 ELSE NumVal(s, pos, n - 1) * 10 + (s[pos + n - 1] - Digit(0))

ParseError == [ok |-> FALSE, date |-> 0]

\* Parsed::to_naive_date: the fields must name an existing calendar date
from_ymd_opt(y, m, d) ==
    IF m \notin 1..12 THEN ParseError
    ELSE IF d \notin 1..DaysInMonth(y, m) THEN ParseError
    ELSE [ok |-> TRUE, date |-> DaysFromCivil(y, m, d)]

\* %d: n3 digits from pos, and nothing after them
parse_day(s, y, m, pos, n3) ==
    IF n3 = 0 \/ pos + n3 - 1 # Len(s) THEN ParseError
    ELSE from_ymd_opt(y, m, NumVal(s, pos, n3))

\* %m: n2 digits from pos, then the '-' literal
parse_month(s, y, pos, n2) ==
    IF n2 = 0 \/ pos + n2 > Len(s) THEN ParseError
    ELSE IF s[pos + n2] # Hyphen THEN ParseError
    ELSE parse_day(s, y, NumVal(s, pos, n2), pos + n2 + 1, DigitRun(s, pos + n2 + 1, 2))

\* %Y: n1 leading digits, then the '-' literal
parse_year(s, n1) ==
    IF n1 = 0 \/ n1 + 1 > Len(s) THEN ParseError
    ELSE IF s[n1 + 1] # Hyphen THEN ParseError
    ELSE parse_month(s, NumVal(s, 1, n1), n1 + 2, DigitRun(s, n1 + 2, 2))

\* NaiveDate::parse_from_str(date_str, "%Y-%m-%d"): each numeric field takes one
\* up to its width in digits (4, 2, 2), padding is not required, nothing may
\* follow the day, and the fields must name an existing calendar date.
\* (Signs and white space, which chrono also accepts, are not in the texts used.)
parse_date(date_str) == parse_year(date_str, DigitRun(date_str, 1, 4))

(***************************************************************************)
(* Points and the streak fold.                                             *)
(***************************************************************************)
\* calculate_session_points with the "3-hours" arm lost
calculate_session_points_no_long(session_type) ==
    CASE session_type = "1-hour"  -> 10
      [] session_type = "2-hours" -> 12
      [] OTHER -> 0

calculate_session_points(session_type) ==
    CASE session_type = "1-hour"  -> 10
      [] session_type = "2-hours" -> 12
      [] session_type = "3-hours" -> 14
      [] OTHER -> 0

None == [some |-> FALSE, date |-> 0]

Some(date) == [some |-> TRUE, date |-> date]

\* update_streak with the operands of the date difference exchanged
update_streak_swapped(last_date, current_date, streak) ==
    IF last_date.some /\ last_date.date - current_date = 1 THEN streak + 1 ELSE 1

\* update_streak counting every later date as the next day of the streak
update_streak_any_gap(last_date, current_date, streak) ==
    IF last_date.some /\ current_date - last_date.date >= 1 THEN streak + 1 ELSE 1

update_streak(last_date, current_date, streak) ==
    IF last_date.some /\ current_date - last_date.date = 1 THEN streak + 1 ELSE 1

\* Itertools::sorted_by (a stable sort) on the text key of each element: x goes
\* behind every element whose key is not after its own
RECURSIVE InsertByKey(_, _)
InsertByKey(s, x) ==
    IF s = <<>> THEN <<x>>
    ELSE IF TextLess(x.key, s[Len(s)].key)
         THEN Append(InsertByKey(SubSeq(s, 1, Len(s) - 1), x), s[Len(s)])
         ELSE Append(s, x)

RECURSIVE SortedByKey(_)
SortedByKey(s) ==
    IF s = <<>> THEN <<>>
    ELSE InsertByKey(SortedByKey(SubSeq(s, 1, Len(s) - 1)), s[Len(s)])

KeyedByDate(ss) == [i \in 1..Len(ss) |-> [key |-> ss[i].date, val |-> ss[i]]]

Vals(keyed) == [i \in 1..Len(keyed) |-> keyed[i].val]

\* .sorted_by(|a, b| a.date.cmp(&b.date))
sort_sessions_by_date(ss) == Vals(SortedByKey(KeyedByDate(ss)))

FoldError == [ok |-> FALSE, streak |-> 0, total_points |-> 0, last_date |-> None]

\* the body of the fold closure, current being parse_date(&session.date)
fold_step(acc, session, current) ==
    IF ~acc.ok \/ ~current.ok THEN FoldError
    ELSE [ok |-> TRUE,
          streak |-> update_streak(acc.last_date, current.date, acc.streak),
          total_points |-> acc.total_points + calculate_session_points(session.session_type),
          last_date |-> Some(current.date)]

\* the fold closure of calculate_streak_and_points; acc.ok = FALSE once a date
\* failed to parse (try_fold stops there)
fold_fn(acc, session) == fold_step(acc, session, parse_date(session.date))

\* .try_fold((0, 0, None), fold_fn) over the first n records
RECURSIVE StreakFold(_, _)
StreakFold(ss, n) ==
    IF n = 0 THEN [ok |-> TRUE, streak |-> 0, total_points |-> 0, last_date |-> None]
    ELSE fold_fn(StreakFold(ss, n - 1), ss[n])

TryFold(sorted) == StreakFold(sorted, Len(sorted))

\* .map(|(streak, total_points, _)| (streak, total_points))
DropLastDate(r) == [ok |-> r.ok, streak |-> r.streak, total_points |-> r.total_points]

calculate_streak_and_points(ss) == DropLastDate(TryFold(sort_sessions_by_date(ss)))

(***************************************************************************)
(* Period trend, period counts, statistics.                                *)
(***************************************************************************)
get_week_start(date) == date - num_days_from_monday(date)

AllParse(ss) == \A i \in 1..Len(ss) : parse_date(ss[i].date).ok

\* the match on period with weeks that start on Sunday
\* (num_days_from_sunday in place of num_days_from_monday)
period_start_sunday_week(date, period) ==
    CASE period = "week"  -> to_string(date - ((date + 4) % 7))
      [] period = "month" -> month_key(date)
      [] period = "year"  -> year_key(date)

\* the match on period inside calculate_trend's first map
period_start(date, period) ==
    CASE period = "week"  -> to_string(get_week_start(date))
      [] period = "month" -> month_key(date)
      [] period = "year"  -> year_key(date)

\* one more pair for the buckets so far: it joins the last bucket when the keys
\* are equal and opens a new bucket otherwise
ChunkAdd(prev, pair) ==
    IF Len(prev) > 0 /\ prev[Len(prev)].week_start = pair.key
    THEN [prev EXCEPT ![Len(prev)].points = @ + pair.val]
    ELSE Append(prev, [week_start |-> pair.key, points |-> pair.val])

\* .chunk_by(key) followed by the per-group sum, over the first n pairs
RECURSIVE ChunkSum(_, _)
ChunkSum(pairs, n) ==
    IF n = 0 THEN <<>> ELSE ChunkAdd(ChunkSum(pairs, n - 1), pairs[n])

Chunked(pairs) == ChunkSum(pairs, Len(pairs))

\* the (period_start, points) pair of each session
PeriodPairs(ss, period) ==
    [i \in 1..Len(ss) |->
        [key |-> period_start(parse_date(ss[i].date).date, period),
         val |-> calculate_session_points(ss[i].session_type)]]

\* calculate_trend with the sorted_by step lost: chunk_by sees the pairs in
\* input order
calculate_trend_unsorted(ss, period) ==
    IF ~AllParse(ss) \/ period \notin {"week", "month", "year"}
    THEN [panic |-> TRUE, buckets |-> <<>>]
    ELSE [panic |-> FALSE, buckets |-> Chunked(PeriodPairs(ss, period))]

\* panics on a date that does not parse (unwrap) and on an unknown period
calculate_trend(ss, period) ==
    IF ~AllParse(ss) \/ period \notin {"week", "month", "year"}
    THEN [panic |-> TRUE, buckets |-> <<>>]
    ELSE [panic |-> FALSE, buckets |-> Chunked(SortedByKey(PeriodPairs(ss, period)))]

\* the two predicates calculate_statistics passes to calculate_period_streak
in_current_year(date, current_date) == year(date) = year(current_date)

in_current_month(date, current_date) == month(date) = month(current_date)

ParsesInYear(d, current_date) == d.ok /\ in_current_year(d.date, current_date)

ParsesInMonth(d, current_date) == d.ok /\ in_current_month(d.date, current_date)

\* calculate_period_streak with the year predicate: the sessions whose date
\* parses and satisfies it
calculate_period_streak_year(ss, current_date) ==
    Cardinality({i \in 1..Len(ss) : ParsesInYear(parse_date(ss[i].date), current_date)})

\* calculate_period_streak with the month predicate
calculate_period_streak_month(ss, current_date) ==
    Cardinality({i \in 1..Len(ss) : ParsesInMonth(parse_date(ss[i].date), current_date)})

\* the achievements rule with > in place of >=
achievements_for_strict(overall_streak) ==
    IF overall_streak > 7 THEN <<"7-day streak">> ELSE <<>>

\* the achievements rule of calculate_statistics
achievements_for(overall_streak) ==
    IF overall_streak >= 7 THEN <<"7-day streak">> ELSE <<>>

StatisticsFailure(panic) ==
    [ok |-> FALSE, panic |-> panic, weekly_trend |-> <<>>, achievements |-> <<>>,
     overall_streak |-> 0, yearly_streak |-> 0, monthly_streak |-> 0]

\* calculate_statistics once the weekly trend and the streak are computed
statistics_result(trend, sp, ss, current_date) ==
    IF trend.panic THEN StatisticsFailure(TRUE)
    ELSE IF ~sp.ok THEN StatisticsFailure(FALSE)
    ELSE [ok |-> TRUE, panic |-> FALSE,
          weekly_trend |-> trend.buckets,
          achievements |-> achievements_for(sp.streak),
          overall_streak |-> sp.streak,
          yearly_streak |-> calculate_period_streak_year(ss, current_date),
          monthly_streak |-> calculate_period_streak_month(ss, current_date)]

calculate_statistics(ss, current_date) ==
    statistics_result(calculate_trend(ss, "week"), calculate_streak_and_points(ss),
                      ss, current_date)

(***************************************************************************)
(* Weekly streak bonus.                                                    *)
(***************************************************************************)
ClosedRun(acc, week_start) == [streak_length |-> acc.streak, week_start |-> week_start]

\* new_streak starting a run at 0 in place of 1
NextStreak_reset_to_zero(acc, session_date) ==
    IF acc.last_date.some /\ session_date - acc.last_date.date = 1
    THEN acc.streak + 1 ELSE 0

NextStreak(acc, session_date) ==
    IF acc.last_date.some /\ session_date - acc.last_date.date = 1
    THEN acc.streak + 1 ELSE 1

\* is_new_week without the comparison of the two week starts: every record
\* after the first counts as a new week
IsNewWeek_every_record(acc, session_date) == acc.last_date.some

IsNewWeek(acc, session_date) ==
    acc.last_date.some /\ get_week_start(session_date) # get_week_start(acc.last_date.date)

\* the fold closure attributing a closed run to the week of the record that
\* crossed the boundary
weekly_bonus_step_new_week(acc, session_date) ==
    [weekly_streaks |->
        IF IsNewWeek(acc, session_date) /\ acc.streak >= 3
        THEN Append(acc.weekly_streaks, ClosedRun(acc, get_week_start(session_date)))
        ELSE acc.weekly_streaks,
     last_date |-> Some(session_date),
     streak |-> NextStreak(acc, session_date)]

\* the fold closure of calculate_weekly_streak_bonus
weekly_bonus_step(acc, session_date) ==
    [weekly_streaks |->
        IF IsNewWeek(acc, session_date) /\ acc.streak >= 3
        THEN Append(acc.weekly_streaks, ClosedRun(acc, get_week_start(acc.last_date.date)))
        ELSE acc.weekly_streaks,
     last_date |-> Some(session_date),
     streak |-> NextStreak(acc, session_date)]

\* .fold((Vec::new(), None, 0), ...) over the first n records, in the order given
RECURSIVE BonusFold(_, _)
BonusFold(ss, n) ==
    IF n = 0 THEN [weekly_streaks |-> <<>>, last_date |-> None, streak |-> 0]
    ELSE weekly_bonus_step(BonusFold(ss, n - 1), parse_date(ss[n].date).date)

\* .map(|(length, week_start)| StreakBonusResponse { .. })
BonusResponses(streaks) ==
    [i \in 1..Len(streaks) |->
        [streak_length |-> streaks[i].streak_length,
         week_start |-> to_string(streaks[i].week_start)]]

\* the final step with the "last_streak >= 3" test lost: the last run is always
\* appended, and last_date.unwrap() panics when there was no record
finalize_streaks_unchecked(r) ==
    IF ~r.last_date.some THEN [panic |-> TRUE, windows |-> <<>>]
    ELSE [panic |-> FALSE,
          windows |-> BonusResponses(
              Append(r.weekly_streaks, ClosedRun(r, get_week_start(r.last_date.date))))]

\* the final run is included if it qualifies (length >= 3)
finalize_streaks(r) ==
    IF r.streak >= 3
    THEN [panic |-> FALSE,
          windows |-> BonusResponses(
              Append(r.weekly_streaks, ClosedRun(r, get_week_start(r.last_date.date))))]
    ELSE [panic |-> FALSE, windows |-> BonusResponses(r.weekly_streaks)]

\* the records are folded in the order given; panics on a date that does not parse
calculate_weekly_streak_bonus(ss) ==
    IF ~AllParse(ss) THEN [panic |-> TRUE, windows |-> <<>>]
    ELSE finalize_streaks(BonusFold(ss, Len(ss)))

(***************************************************************************)
(* The analytics functions applied to a record slice, as the unit tests    *)
(* do: sessions is the slice, resp the value returned.  Each behaviour is  *)
(* one call on one slice.                                                  *)
(***************************************************************************)
NoResp == [op |-> "none"]

Day(y, m, d) == DaysFromCivil(y, m, d)

\* Fri 2023-09-29 .. Mon 2023-10-02: a month boundary and a Monday boundary
FnDays == {Day(2023, 9, 29) + k : k \in 0..3}

SessionTypes == {"1-hour", "2-hours", "3-hours", "4-hours"}

CurrentDates == {Day(2023, 10, 15), Day(2024, 10, 15)}

Periods == {"week", "month", "year"}

SeqsUpTo(S, n) == UNION {[1..k -> S] : k \in 0..n}

\* records numbered like sample_sessions(): id = position
WithIds(recs) ==
    [i \in 1..Len(recs) |->
        [id |-> i, date |-> recs[i].date, session_type |-> recs[i].session_type]]

DatedInputs ==
    {WithIds(r) : r \in SeqsUpTo([date : {to_string(d) : d \in FnDays},
                                  session_type : {"1-hour"}], MaxLen)}

\* every session type on the Sunday, two of them on the Monday
TypedRecords ==
    [date : {to_string(Day(2023, 10, 1))}, session_type : SessionTypes]
    \cup [date : {to_string(Day(2023, 10, 2))}, session_type : {"1-hour", "3-hours"}]

TypedInputs == {WithIds(r) : r \in SeqsUpTo(TypedRecords, MaxPts)}

\* a run from Sun 2023-10-01 (the first date of sample_sessions()) onward whose k-th step is steps[k] days long
RECURSIVE RunDay(_, _)
RunDay(steps, i) == IF i = 1 THEN Day(2023, 10, 1) ELSE RunDay(steps, i - 1) + steps[i - 1]

RunOf(steps) ==
    [i \in 1..Len(steps) + 1 |-> [date |-> to_string(RunDay(steps, i)), session_type |-> "2-hours"]]

Reversed(s) == [i \in 1..Len(s) |-> s[Len(s) + 1 - i]]

\* runs of one- and two-day steps, oldest first or newest first
RunInputs ==
    LET runs == {RunOf(st) : st \in SeqsUpTo({1, 2}, MaxRun - 1)}
    IN  {WithIds(r) : r \in runs} \cup {WithIds(Reversed(r)) : r \in runs}

FnInputs == DatedInputs \cup TypedInputs \cup RunInputs

InitFn ==
    /\ sessions \in FnInputs
    /\ resp = NoResp

CallStreakAndPoints ==
    /\ resp = NoResp
    /\ resp' = [op |-> "calculate_streak_and_points"] @@ calculate_streak_and_points(sessions)
    /\ UNCHANGED sessions

CallTrend ==
    \E period \in Periods :
        /\ resp = NoResp
        /\ resp' = [op |-> "calculate_trend", period |-> period] @@ calculate_trend(sessions, period)
        /\ UNCHANGED sessions

CallWeeklyStreakBonus ==
    /\ resp = NoResp
    /\ resp' = [op |-> "calculate_weekly_streak_bonus"] @@ calculate_weekly_streak_bonus(sessions)
    /\ UNCHANGED sessions

CallStatistics ==
    \E current_date \in CurrentDates :
        /\ resp = NoResp
        /\ resp' = [op |-> "calculate_statistics", current_date |-> current_date]
                      @@ calculate_statistics(sessions, current_date)
        /\ UNCHANGED sessions

NextFn ==
    \/ CallStreakAndPoints
    \/ CallTrend
    \/ CallWeeklyStreakBonus
    \/ CallStatistics

SpecFn == InitFn /\ [][NextFn]_vars


(***************************************************************************)
(* The service: sessions is the session table in insertion order (the      *)
(* store is the in-memory SQLite database, whose statements are taken to   *)
(* succeed), resp the response to the last request.  Times of day are left *)
(* out of current_time.                                                    *)
(***************************************************************************)
\* "2023-9-30": a date written without zero padding
UnpaddedText == Digits4(2023) \o <<Hyphen, Digit(9), Hyphen>> \o Digits2(30)

\* "2023-13-01" and "2023-02-30": well-formed texts that name no calendar date
NoSuchMonthText == Digits4(2023) \o <<Hyphen>> \o Digits2(13) \o <<Hyphen>> \o Digits2(1)

NoSuchDayText == Digits4(2023) \o <<Hyphen>> \o Digits2(2) \o <<Hyphen>> \o Digits2(30)

\* "invalid-date", the text of test_parse_date_invalid
InvalidText == <<105, 110, 118, 97, 108, 105, 100, Hyphen, 100, 97, 116, 101>>

RequestDates ==
    {to_string(Day(2023, 10, 1)), to_string(Day(2023, 10, 2)),
     UnpaddedText, NoSuchMonthText, NoSuchDayText, InvalidText}

RequestTypes == {"1-hour", "4-hours"}

\* what Utc::now() may return
NowDates == {Day(2023, 10, 15), Day(2024, 10, 15)}

\* handlers that discard fetch_sessions' current_date do not depend on the clock
AnyNow == CHOOSE now \in NowDates : TRUE

\* NaiveDate::default(), the current date the statistics handlers pass on
DefaultDate == Day(1970, 1, 1)

valid_session_types == {"1-hour", "2-hours", "3-hours"}

RECURSIVE TotalPoints(_, _)
TotalPoints(ss, n) ==
    IF n = 0 THEN 0 ELSE TotalPoints(ss, n - 1) + calculate_session_points(ss[n].session_type)

\* fetch_sessions once the rows are read: the date of the last row or today's,
\* and the sum of the rows' points
FetchResult(rows, now) ==
    [sessions |-> rows,
     current_date |-> IF rows # <<>> THEN rows[Len(rows)].date ELSE to_string(now),
     total_points |-> TotalPoints(rows, Len(rows))]

\* SELECT * FROM session ORDER BY date (rows with equal dates in rowid order)
fetch_sessions(table, now) == FetchResult(sort_sessions_by_date(table), now)

BadRequest(message) == [status |-> 400, body |-> [error |-> message]]

ServerError == [status |-> 500, body |-> [error |-> "Invalid date format"]]

\* a TimeResponse with the given status
TimeResponse(status, current_time, sp, total_points, date) ==
    [status |-> status,
     body |-> [current_time |-> current_time, streak |-> sp.streak,
               total_points |-> total_points, date |-> date]]

Init ==
    /\ sessions = <<>>
    /\ resp = NoResp

NewRow(table, session_log) ==
    [id |-> Len(table) + 1, date |-> session_log.date,
     session_type |-> session_log.session_type]

\* create_session after the insert: fetched is fetch_sessions on the new table
CreatedResponse(session_log, date, fetched, sp) ==
    IF ~sp.ok THEN BadRequest("Invalid date format")
    ELSE TimeResponse(201, session_log.date, sp, fetched.total_points, to_string(date))

Created(session_log, date, fetched) ==
    CreatedResponse(session_log, date, fetched, calculate_streak_and_points(fetched.sessions))

LogSession(session_log, parsed) ==
    IF ~parsed.ok
    THEN /\ resp' = [op |-> "create_session", req |-> session_log]
                       @@ BadRequest("Invalid date format")
         /\ UNCHANGED sessions
    ELSE IF session_log.session_type \notin valid_session_types
    THEN /\ resp' = [op |-> "create_session", req |-> session_log]
                       @@ BadRequest("Invalid session type")
         /\ UNCHANGED sessions
    ELSE /\ Len(sessions) < MaxStore
         /\ sessions' = Append(sessions, NewRow(sessions, session_log))
         /\ resp' = [op |-> "create_session", req |-> session_log]
                       @@ Created(session_log, parsed.date, fetch_sessions(sessions', AnyNow))

create_session ==
    \E session_log \in [date : RequestDates, session_type : RequestTypes] :
        LogSession(session_log, parse_date(session_log.date))

TimeOf(parsed, fetched, sp) ==
    IF ~parsed.ok THEN BadRequest("Invalid date format")
    ELSE IF ~sp.ok THEN ServerError
    ELSE TimeResponse(200, to_string(parsed.date), sp, fetched.total_points,
                      to_string(parsed.date))

TimeAt(parsed, fetched) ==
    TimeOf(parsed, fetched, calculate_streak_and_points(fetched.sessions))

\* the date query parameter is absent (the clock is read), a date, or no date
get_time ==
    \E query \in {<<>>, <<to_string(Day(2023, 10, 1))>>, <<InvalidText>>}, now \in NowDates :
        /\ resp' = [op |-> "get_time"] @@
               TimeAt(IF query = <<>> THEN [ok |-> TRUE, date |-> now] ELSE parse_date(query[1]),
                      fetch_sessions(sessions, AnyNow))
        /\ UNCHANGED sessions

\* what the statistics handlers compute before picking their fields
statistics_of(fetched) == calculate_statistics(fetched.sessions, DefaultDate)

WeeklyTrendOf(st) ==
    IF ~st.ok THEN BadRequest("Invalid date format")
    ELSE [status |-> 200, body |-> st.weekly_trend]

get_weekly_trend ==
    /\ resp' = [op |-> "get_weekly_trend"]
                  @@ WeeklyTrendOf(statistics_of(fetch_sessions(sessions, AnyNow)))
    /\ UNCHANGED sessions

AchievementsOf(st) ==
    IF ~st.ok THEN BadRequest("Invalid date format")
    ELSE [status |-> 200, body |-> [achievements |-> st.achievements]]

get_achievements ==
    /\ resp' = [op |-> "get_achievements"]
                  @@ AchievementsOf(statistics_of(fetch_sessions(sessions, AnyNow)))
    /\ UNCHANGED sessions

StreaksOf(st) ==
    IF ~st.ok THEN BadRequest("Invalid date format")
    ELSE [status |-> 200,
          body |-> [overall_streak |-> st.overall_streak,
                    yearly_streak |-> st.yearly_streak,
                    monthly_streak |-> st.monthly_streak]]

get_streaks ==
    /\ resp' = [op |-> "get_streaks"]
                  @@ StreaksOf(statistics_of(fetch_sessions(sessions, AnyNow)))
    /\ UNCHANGED sessions

get_streak_bonuses ==
    /\ resp' = [op |-> "get_streak_bonuses", status |-> 200,
                body |-> calculate_weekly_streak_bonus(
                             fetch_sessions(sessions, AnyNow).sessions).windows]
    /\ UNCHANGED sessions

OverallOf(fetched, st) ==
    IF ~st.ok THEN BadRequest("Invalid date format")
    ELSE [status |-> 200,
          body |-> [current_date |-> fetched.current_date,
                    streak |-> st.overall_streak,
                    total_points |-> fetched.total_points,
                    weekly_trend |-> st.weekly_trend,
                    achievements |-> st.achievements,
                    yearly_streak |-> st.yearly_streak,
                    monthly_streak |-> st.monthly_streak]]

Overall(fetched) == OverallOf(fetched, statistics_of(fetched))

get_overall_statistics ==
    \E now \in NowDates :
        /\ resp' = [op |-> "get_overall_statistics"] @@ Overall(fetch_sessions(sessions, now))
        /\ UNCHANGED sessions

Next ==
    \/ create_session
    \/ get_time
    \/ get_weekly_trend
    \/ get_achievements
    \/ get_streaks
    \/ get_streak_bonuses
    \/ get_overall_statistics

Spec == Init /\ [][Next]_vars

(***************************************************************************)
(* Vocabulary of the properties.                                           *)
(***************************************************************************)
DayOf(session) == parse_date(session.date).date

DaySet(ss) == {DayOf(ss[i]) : i \in 1..Len(ss)}

MaxOf(S) == CHOOSE x \in S : \A y \in S : y <= x

\* the number of consecutive calendar days, ending at the latest date of ss,
\* on each of which ss has a session
TrailingDays(ss) ==
    IF ss = <<>> THEN 0
    ELSE LET last == MaxOf(DaySet(ss))
         IN  CHOOSE k \in 1..Len(ss) :
                 /\ \A j \in 0..(k - 1) : (last - j) \in DaySet(ss)
                 /\ (last - k) \notin DaySet(ss)

\* each record is dated exactly one day after the one before it
SortedNoGaps(ss) == \A i \in 2..Len(ss) : DayOf(ss[i]) = DayOf(ss[i - 1]) + 1

\* the point value the documentation gives each session type
PointValue(session_type) ==
    IF session_type = "1-hour" THEN 10
    ELSE IF session_type = "2-hours" THEN 12
    ELSE IF session_type = "3-hours" THEN 14
    ELSE 0

RECURSIVE SumPoints(_, _)
SumPoints(ss, n) == IF n = 0 THEN 0 ELSE SumPoints(ss, n - 1) + PointValue(ss[n].session_type)

Swapped(ss, a, b) ==
    [i \in 1..Len(ss) |-> IF i = a THEN ss[b] ELSE IF i = b THEN ss[a] ELSE ss[i]]

\* the orders the records of ss can come in: every permutation of a short
\* slice; of a long one its reversal and every exchange of two records
Rearrangements(ss) ==
    IF Len(ss) <= 4
    THEN {[i \in 1..Len(ss) |-> ss[f[i]]] : f \in Permutations(1..Len(ss))}
    ELSE {Reversed(ss)} \cup {Swapped(ss, a, b) : a, b \in 1..Len(ss)}

\* 2023-10-02, the week start the tests expect, is a Monday
IsMonday(date) == (date - Day(2023, 10, 2)) % 7 = 0

\* the length of the run of one-day steps that ends at position i of ss
RunLen(ss, i) ==
    CHOOSE k \in 1..i :
        /\ \A j \in (i - k + 2)..i : DayOf(ss[j]) - DayOf(ss[j - 1]) = 1
        /\ k = i \/ DayOf(ss[i - k + 1]) - DayOf(ss[i - k]) # 1

\* the Monday on or before the date
MondayOf(date) == CHOOSE m \in (date - 6)..date : IsMonday(m)

RECURSIVE SumBuckets(_, _)
SumBuckets(buckets, n) == IF n = 0 THEN 0 ELSE SumBuckets(buckets, n - 1) + buckets[n].points

CountWhere(ss, P(_)) == Cardinality({i \in 1..Len(ss) : P(DayOf(ss[i]))})

(***************************************************************************)
(* Properties of the analytics functions (checked under SpecFn).           *)
(***************************************************************************)
\* C1: for every record collection, in any order and with same-day duplicates,
\* the streak returned by calculate_streak_and_points is the number of
\* consecutive calendar days, ending at the date of the most recent record, that
\* each have at least one session.
C1_StreakCountsDistinctDays ==
    resp.op = "calculate_streak_and_points" =>
        resp.ok /\ resp.streak = TrailingDays(sessions)

\* C2: for a non-empty record sequence in which each record is dated exactly one
\* day after the previous one, calculate_streak_and_points returns a streak equal
\* to the number of records.
C2_GaplessStreakIsCount ==
    (resp.op = "calculate_streak_and_points" /\ sessions # <<>> /\ SortedNoGaps(sessions)) =>
        resp.ok /\ resp.streak = Len(sessions)

C2_Witness ==
    /\ resp.op = "calculate_streak_and_points"
    /\ Len(sessions) >= 4
    /\ SortedNoGaps(sessions)
    /\ resp.streak = Len(sessions)

\* C3: the total points returned by calculate_streak_and_points is the sum of the
\* point values of all records (10, 12, 14, and 0 for any other label) and is the
\* same for every rearrangement of the records.
C3_TotalIsOrderFreeSum ==
    resp.op = "calculate_streak_and_points" =>
        /\ resp.ok
        /\ resp.total_points = SumPoints(sessions, Len(sessions))
        /\ \A p \in Rearrangements(sessions) :
               calculate_streak_and_points(p).total_points = resp.total_points

C3_Witness ==
    /\ resp.op = "calculate_streak_and_points"
    /\ {sessions[i].session_type : i \in 1..Len(sessions)} = {"4-hours", "3-hours", "1-hour"}
    /\ DayOf(sessions[1]) > DayOf(sessions[2])
    /\ resp.total_points = 24

\* C4: calculate_weekly_streak_bonus returns, for the records in any order, the
\* bonus windows of the records in ascending date order.
C4_BonusIgnoresInputOrder ==
    resp.op = "calculate_weekly_streak_bonus" =>
        resp.windows = calculate_weekly_streak_bonus(sort_sessions_by_date(sessions)).windows

\* C5: every bonus window has streak_length >= 3 and a week_start that is a
\* Monday: the Monday on or before the date of the last record of the run it
\* reports (a run of that length, ending where the input ends or where the next
\* record falls in another week), not that of the record after the run.
C5_WindowIsRunOfThreeInItsOwnWeek ==
    resp.op = "calculate_weekly_streak_bonus" =>
        /\ ~resp.panic
        /\ \A n \in 1..Len(resp.windows) :
               LET w == resp.windows[n]
                   week_start == parse_date(w.week_start)
               IN  /\ w.streak_length >= 3
                   /\ week_start.ok
                   /\ to_string(week_start.date) = w.week_start
                   /\ IsMonday(week_start.date)
                   /\ \E i \in 1..Len(sessions) :
                          /\ RunLen(sessions, i) = w.streak_length
                          /\ week_start.date = MondayOf(DayOf(sessions[i]))
                          /\ \/ i = Len(sessions)
                             \/ MondayOf(DayOf(sessions[i + 1])) # week_start.date

C5_Witness ==
    /\ resp.op = "calculate_weekly_streak_bonus"
    /\ Len(resp.windows) = 2
    /\ resp.windows[1].streak_length = 3
    /\ resp.windows[1].week_start = to_string(Day(2023, 9, 25))
    /\ resp.windows[2].week_start = to_string(Day(2023, 10, 2))

\* C6: the weekly buckets of calculate_trend come with non-decreasing week_start
\* keys, and their points add up to the total points calculate_streak_and_points
\* returns for the same records.
C6_WeeklyTrendOrderedAndComplete ==
    (resp.op = "calculate_trend" /\ resp.period = "week") =>
        /\ ~resp.panic
        /\ \A n \in 2..Len(resp.buckets) :
               ~TextLess(resp.buckets[n].week_start, resp.buckets[n - 1].week_start)
        /\ SumBuckets(resp.buckets, Len(resp.buckets))
               = calculate_streak_and_points(sessions).total_points

C6_Witness ==
    /\ resp.op = "calculate_trend" /\ resp.period = "week"
    /\ Len(sessions) >= 3
    /\ DayOf(sessions[1]) > DayOf(sessions[2])
    /\ Len(resp.buckets) = 2
    /\ resp.buckets[1].points > 0 /\ resp.buckets[2].points > 0

\* C7: calculate_statistics returns yearly_streak = the number of sessions dated
\* in the current date's calendar year and monthly_streak = the number of
\* sessions dated in the current date's calendar month of that year.
C7_PeriodCountsAreYearAndMonthOfYear ==
    resp.op = "calculate_statistics" =>
        LET InYear(d) == year(d) = year(resp.current_date)
            InMonth(d) == year(d) = year(resp.current_date) /\ month(d) = month(resp.current_date)
        IN  /\ resp.ok
            /\ resp.yearly_streak = CountWhere(sessions, InYear)
            /\ resp.monthly_streak = CountWhere(sessions, InMonth)

\* C8: the achievements calculate_statistics returns are exactly <<"7-day streak">>
\* when the overall streak it returns is at least 7, and empty otherwise.
C8_AchievementIffStreakOfSeven ==
    resp.op = "calculate_statistics" =>
        /\ resp.ok
        /\ resp.overall_streak = calculate_streak_and_points(sessions).streak
        /\ (resp.overall_streak >= 7 => resp.achievements = <<"7-day streak">>)
        /\ (resp.overall_streak < 7 => resp.achievements = <<>>)

C8_Witness ==
    /\ resp.op = "calculate_statistics"
    /\ resp.overall_streak = 7
    /\ Len(sessions) > 7
    /\ resp.achievements = <<"7-day streak">>

\* C10: on an empty record collection calculate_streak_and_points returns (0, 0),
\* calculate_trend no buckets, calculate_weekly_streak_bonus no windows and
\* calculate_statistics no achievements, none of them failing.
C10_EmptyInputGivesEmptyResults ==
    sessions = <<>> =>
        /\ resp.op = "calculate_streak_and_points" =>
               resp.ok /\ resp.streak = 0 /\ resp.total_points = 0
        /\ resp.op = "calculate_trend" => ~resp.panic /\ resp.buckets = <<>>
        /\ resp.op = "calculate_weekly_streak_bonus" => ~resp.panic /\ resp.windows = <<>>
        /\ resp.op = "calculate_statistics" =>
               resp.ok /\ ~resp.panic /\ resp.achievements = <<>>

C10_Witness ==
    /\ sessions = <<>>
    /\ resp.op = "calculate_weekly_streak_bonus"
    /\ resp.windows = <<>>

\* the records come oldest first (same-day records in any order)
Ascending(ss) == \A i \in 2..Len(ss) : DayOf(ss[i - 1]) <= DayOf(ss[i])

\* x put into the oldest-first sequence s, behind the records of its own day
RECURSIVE InsertByDay(_, _)
InsertByDay(s, x) ==
    IF s = <<>> THEN <<x>>
    ELSE IF DayOf(x) < DayOf(s[Len(s)])
         THEN Append(InsertByDay(SubSeq(s, 1, Len(s) - 1), x), s[Len(s)])
         ELSE Append(s, x)

\* the records of ss by calendar date, oldest first
RECURSIVE OldestFirst(_)
OldestFirst(ss) ==
    IF ss = <<>> THEN <<>>
    ELSE InsertByDay(OldestFirst(SubSeq(ss, 1, Len(ss) - 1)), ss[Len(ss)])

\* the streak after record n of p is one more than the streak before it when
\* the record is dated exactly one day after record n - 1, and 1 otherwise
StepsByOneDay(p, n) ==
    StreakFold(p, n).streak =
        IF n > 1 /\ DayOf(p[n]) - DayOf(p[n - 1]) = 1
        THEN StreakFold(p, n - 1).streak + 1
        ELSE 1

\* C11: the streak fold of calculate_streak_and_points, run over the records in
\* ascending date order, increments the streak only when a record is dated
\* exactly one day after the previous record and otherwise sets it to 1 (first
\* record, a gap of two or more days, a same-day duplicate); so the streak
\* returned is the length of the longest suffix of the sorted sequence in which
\* every step is exactly one day, and the total is still the sum of all records.
C11_StreakIsLongestOneDaySuffix ==
    resp.op = "calculate_streak_and_points" =>
        /\ resp.ok
        /\ Ascending(OldestFirst(sessions))
        /\ \A n \in 1..Len(sessions) : StepsByOneDay(OldestFirst(sessions), n)
        /\ resp.streak = IF sessions = <<>> THEN 0
                         ELSE RunLen(OldestFirst(sessions), Len(sessions))
        /\ resp.total_points = SumPoints(sessions, Len(sessions))

\* 2023-10-01, 2023-10-02, 2023-10-04: streak 1, points of all three
C11_Witness ==
    /\ resp.op = "calculate_streak_and_points"
    /\ [i \in 1..Len(sessions) |-> sessions[i].date]
           = <<to_string(Day(2023, 10, 1)), to_string(Day(2023, 10, 2)),
               to_string(Day(2023, 10, 4))>>
    /\ resp.streak = 1
    /\ resp.total_points = 36

\* the period key of a record, read off its YYYY-MM-DD text: the text of the
\* Monday of its week, its YYYY-MM prefix, its YYYY prefix
PeriodKeyOf(session, period) ==
    IF period = "week" THEN to_string(MondayOf(DayOf(session)))
    ELSE IF period = "month" THEN SubSeq(session.date, 1, 7)
    ELSE SubSeq(session.date, 1, 4)

PeriodKeys(ss, period) == {PeriodKeyOf(ss[i], period) : i \in 1..Len(ss)}

\* the point values of the first n records of ss whose period key is key
RECURSIVE SumPointsOfKey(_, _, _, _)
SumPointsOfKey(ss, n, period, key) ==
    IF n = 0 THEN 0
    ELSE SumPointsOfKey(ss, n - 1, period, key)
         + (IF PeriodKeyOf(ss[n], period) = key THEN PointValue(ss[n].session_type) ELSE 0)

\* C12: for every record collection in any input order and each period in
\* {week, month, year}, calculate_trend emits exactly one bucket per distinct
\* period key occurring in the input (the keys are strictly increasing), and each
\* bucket's points is the sum of the point values of exactly the records whose
\* period key is the bucket's key.
C12_OneBucketPerPeriodKey ==
    resp.op = "calculate_trend" =>
        /\ ~resp.panic
        /\ {resp.buckets[n].week_start : n \in 1..Len(resp.buckets)}
               = PeriodKeys(sessions, resp.period)
        /\ \A n \in 2..Len(resp.buckets) :
               TextLess(resp.buckets[n - 1].week_start, resp.buckets[n].week_start)
        /\ \A n \in 1..Len(resp.buckets) :
               resp.buckets[n].points
                   = SumPointsOfKey(sessions, Len(sessions), resp.period,
                                    resp.buckets[n].week_start)

\* a Monday record, the Sunday before it, the Monday again: two weekly buckets,
\* the second with the points of both Monday records
C12_Witness ==
    /\ resp.op = "calculate_trend" /\ resp.period = "week"
    /\ [i \in 1..Len(sessions) |-> DayOf(sessions[i])]
           = <<Day(2023, 10, 2), Day(2023, 10, 1), Day(2023, 10, 2)>>
    /\ [i \in 1..Len(sessions) |-> sessions[i].session_type]
           = <<"3-hours", "1-hour", "1-hour">>
    /\ resp.buckets = <<[week_start |-> to_string(Day(2023, 9, 25)), points |-> 10],
                        [week_start |-> to_string(Day(2023, 10, 2)), points |-> 24]>>

\* the positions of ss dated in the week that starts at the date written week_start
InWeek(ss, week_start) ==
    {i \in 1..Len(ss) : to_string(MondayOf(DayOf(ss[i]))) = week_start}

\* in date-sorted ss, the position at which the run a window reports ends: the
\* last record of the window's week
WindowEnd(ss, w) == IF InWeek(ss, w.week_start) = {} THEN 0 ELSE MaxOf(InWeek(ss, w.week_start))

\* the position at which the maximal run of one-day steps through the window's
\* end begins; it identifies the run
RunStart(ss, w) ==
    IF WindowEnd(ss, w) = 0 THEN 0
    ELSE WindowEnd(ss, w) - RunLen(ss, WindowEnd(ss, w)) + 1

LastWeekStart(ss) == to_string(MondayOf(DayOf(ss[Len(ss)])))

\* the last window reports a run of the given length in the week of the last record
LastWindowIs(windows, streak, ss) ==
    /\ windows # <<>>
    /\ windows[Len(windows)].streak_length = streak
    /\ windows[Len(windows)].week_start = LastWeekStart(ss)

\* C14: for every date-sorted record collection the two streak folds agree: if
\* calculate_streak_and_points returns a streak >= 3 then
\* calculate_weekly_streak_bonus returns a non-empty sequence whose last window
\* has streak_length equal to that streak and week_start equal to the Monday of
\* the most recent record's week; if the streak is < 3 no window is attributed
\* to a run ending at the most recent record (none carries that week_start).
C14_StreakFoldsAgree ==
    (resp.op = "calculate_weekly_streak_bonus" /\ Ascending(sessions)) =>
        /\ ~resp.panic
        /\ calculate_streak_and_points(sessions).ok
        /\ calculate_streak_and_points(sessions).streak >= 3 =>
               LastWindowIs(resp.windows, calculate_streak_and_points(sessions).streak, sessions)
        /\ calculate_streak_and_points(sessions).streak < 3 =>
               \A n \in 1..Len(resp.windows) :
                   sessions = <<>> \/ resp.windows[n].week_start # LastWeekStart(sessions)

\* the records of sample_sessions' dates: streak 3, one window (3, 2023-10-02)
C14_Witness ==
    /\ resp.op = "calculate_weekly_streak_bonus"
    /\ [i \in 1..Len(sessions) |-> DayOf(sessions[i])]
           = [i \in 1..3 |-> Day(2023, 10, 1) + i - 1]
    /\ calculate_streak_and_points(sessions).streak = 3
    /\ resp.windows = <<[streak_length |-> 3, week_start |-> to_string(Day(2023, 10, 2))]>>

(***************************************************************************)
(* Properties of the service (checked under Spec).                         *)
(***************************************************************************)
\* the text has the shape YYYY-MM-DD: ten bytes, digits around two hyphens
MatchesPattern(text) ==
    /\ Len(text) = 10
    /\ text[5] = Hyphen /\ text[8] = Hyphen
    /\ \A i \in {1, 2, 3, 4, 6, 7, 9, 10} : IsDigit(text[i])

\* a text of that shape names a date of the calendar
DenotesDate(text) ==
    LET y == NumVal(text, 1, 4)
        m == NumVal(text, 6, 2)
        d == NumVal(text, 9, 2)
    IN  m \in 1..12 /\ d \in 1..DaysInMonth(y, m)

ValidLogRequest(req) ==
    /\ MatchesPattern(req.date)
    /\ DenotesDate(req.date)
    /\ req.session_type \in {"1-hour", "2-hours", "3-hours"}

StoredRecordsValid(table) ==
    \A i \in 1..Len(table) :
        ValidLogRequest([date |-> table[i].date, session_type |-> table[i].session_type])

\* one step of the service that answers a log_session request
C9_LogSessionStep ==
    (resp'.op = "create_session" /\ vars' # vars) =>
        /\ IF ValidLogRequest(resp'.req)
           THEN /\ resp'.status = 201
                /\ Len(sessions') = Len(sessions) + 1
                /\ sessions'[Len(sessions')].date = resp'.req.date
                /\ sessions'[Len(sessions')].session_type = resp'.req.session_type
           ELSE /\ resp'.status = 400
                /\ sessions' = sessions
        /\ StoredRecordsValid(sessions')

\* C9: a log_session request whose date is not a YYYY-MM-DD text naming a
\* calendar date, or whose session type is not one of the three, is answered
\* with status 400 and inserts nothing; any other request is accepted and adds
\* its record; so every stored record has such a date and such a type.
C9_OnlyValidRequestsAreStored == [][C9_LogSessionStep]_vars

\* the latest date among the stored sessions: the current date the service reports
LatestDay(table) == MaxOf(DaySet(table))

SameYear(d, e) == year(d) = year(e)

SameMonthOfYear(d, e) == year(d) = year(e) /\ month(d) = month(e)

\* the number of stored sessions dated in the calendar year of the latest one
CountInLatestYear(table) ==
    Cardinality({i \in 1..Len(table) : SameYear(DayOf(table[i]), LatestDay(table))})

AllInLatestMonth(table) ==
    \A i \in 1..Len(table) : SameMonthOfYear(DayOf(table[i]), LatestDay(table))

\* C15: after any sequence of accepted log_session requests, the responses of
\* /api/statistics/overall and /api/statistics/streaks report yearly_streak and
\* monthly_streak counted relative to the current date the service reports (the
\* date of the latest stored session); so with all stored sessions in the same
\* month as the latest one, both equal the number of stored sessions.
C15_PeriodCountsFollowLatestSession ==
    (resp.op \in {"get_streaks", "get_overall_statistics"} /\ sessions # <<>>) =>
        /\ resp.status = 200
        /\ resp.body.yearly_streak = CountInLatestYear(sessions)
        /\ AllInLatestMonth(sessions) =>
               /\ resp.body.yearly_streak = Len(sessions)
               /\ resp.body.monthly_streak = Len(sessions)

====
